---- MODULE Spec2Model ----
(***************************************************************************)
(* A model of the nutrient calculator page (src/js/scripts.js):            *)
(*   - the pure helpers extractNutrients and estimateGramsFromMeasure,     *)
(*   - the page handlers calculate, fetchMealSuggestions and               *)
(*     estimateMealNutrition, each cut at its awaits.                      *)
(*                                                                         *)
(* JavaScript strings are sequences of one-character strings.  JavaScript  *)
(* numbers are exact non-negative rationals n/d plus NaN and Infinity; the *)
(* one place where binary rounding can change an outcome, a toFixed tie,   *)
(* is a choice between the two neighbouring decimals.                      *)
(***************************************************************************)
EXTENDS Integers, Sequences, FiniteSets, TLC

VARIABLES
    argMeasure,   \* estimateGramsFromMeasure: the argument
    retGrams,     \* estimateGramsFromMeasure: the value returned
    argFood,      \* extractNutrients: the argument's foodNutrients list
    retNutrients, \* extractNutrients: the object returned
    returned,     \* whether the pure function called has returned
    calls,        \* the invocations of calculate(), in order
    display,      \* the four spans #calories #protein #carbs #fat
    suggestions,  \* the content of the #suggestions div
    aggs,         \* the invocations of estimateMealNutrition(), in order
    inflight      \* the HTTP requests that have not settled yet

pureVars == <<argMeasure, retGrams, argFood, retNutrients, returned>>

pageVars == <<calls, display, suggestions, aggs, inflight>>

----------------------------------------------------------------------------
(* Numbers *)

RECURSIVE GCD(_, _)
GCD(a, b) == IF b = 0 THEN a ELSE GCD(b, a % b)

Num(n, d) == LET g == GCD(n, d) IN [k |-> "num", n |-> n \div g, d |-> d \div g]

IntNum(n) == [k |-> "num", n |-> n, d |-> 1]

NaN == [k |-> "NaN", n |-> 0, d |-> 1]

Infinity == [k |-> "Infinity", n |-> 1, d |-> 1]

\* A value that is not a number: a missing property, or the function
\* object an object literal inherits from Object.prototype.
Undefined == [k |-> "undefined", n |-> 0, d |-> 1]

ObjectConstructor == [k |-> "function", n |-> 0, d |-> 1]

IsNum(x) == x.k = "num"

IsZero(x) == x.k = "num" /\ x.n = 0

\* ToNumber of an operand of * or /: undefined and a function are NaN.
ToNumber(x) == IF x.k \in {"undefined", "function"} THEN NaN ELSE x

\* ToBoolean, as used by the || operator.
Truthy(x) == ~(x.k \in {"NaN", "undefined"} \/ IsZero(x))

\* a || b
OrElse(a, b) == IF Truthy(a) THEN a ELSE b

\* a * b
Mul(a0, b0) ==
    LET a == ToNumber(a0)
        b == ToNumber(b0)
    IN  IF a.k = "NaN" \/ b.k = "NaN" THEN NaN
        ELSE IF a.k = "Infinity" \/ b.k = "Infinity"
             THEN IF IsZero(a) \/ IsZero(b) THEN NaN ELSE Infinity
        ELSE Num(a.n * b.n, a.d * b.d)

\* a / b
Div(a0, b0) ==
    LET a == ToNumber(a0)
        b == ToNumber(b0)
    IN  IF a.k = "NaN" \/ b.k = "NaN" THEN NaN
        ELSE IF a.k = "Infinity"
             THEN IF b.k = "Infinity" THEN NaN ELSE Infinity
        ELSE IF b.k = "Infinity" THEN IntNum(0)
        ELSE IF b.n = 0 THEN IF a.n = 0 THEN NaN ELSE Infinity
        ELSE Num(a.n * b.d, a.d * b.n)

\* a + b (both operands are numbers wherever the code adds)
Add(a, b) ==
    IF a.k = "NaN" \/ b.k = "NaN" THEN NaN
    ELSE IF a.k = "Infinity" \/ b.k = "Infinity" THEN Infinity
    ELSE Num(a.n * b.d + b.n * a.d, a.d * b.d)

RECURSIVE Pow10(_)
Pow10(e) == IF e = 0 THEN 1 ELSE 10 * Pow10(e - 1)

----------------------------------------------------------------------------
(* Text shown on the page *)

Text(t, f, m, suffix) == [t |-> t, f |-> f, m |-> m, suffix |-> suffix]

\* Number.prototype.toFixed(f): the decimal with f fraction digits nearest
\* to x.  On an exact tie of the rational value the binary double may lie on
\* either side, so both neighbours are possible texts.
toFixed(x, f) ==
    IF x.k = "NaN" THEN {Text("NaN", 0, 0, "")}
    ELSE IF x.k = "Infinity" THEN {Text("Infinity", 0, 0, "")}
    ELSE LET p == x.n * Pow10(f)
             lo == p \div x.d
             r == p % x.d
         IN  IF 2 * r < x.d THEN {Text("fixed", f, lo, "")}
             ELSE IF 2 * r > x.d THEN {Text("fixed", f, lo + 1, "")}
             ELSE {Text("fixed", f, lo, ""), Text("fixed", f, lo + 1, "")}

\* text + suffix
Suffixed(text, suffix) == [text EXCEPT !.suffix = suffix]

----------------------------------------------------------------------------
(* Strings *)

Null == <<"null">>

Absent == <<"undefined">>

IsString(s) == s # Null /\ s # Absent

Digits == <<"0", "1", "2", "3", "4", "5", "6", "7", "8", "9">>

UpperCase == <<"A", "B", "C", "D", "E", "F", "G", "H", "I", "J", "K", "L", "M",
               "N", "O", "P", "Q", "R", "S", "T", "U", "V", "W", "X", "Y", "Z">>

LowerCase == <<"a", "b", "c", "d", "e", "f", "g", "h", "i", "j", "k", "l", "m",
               "n", "o", "p", "q", "r", "s", "t", "u", "v", "w", "x", "y", "z">>

Range(s) == {s[i] : i \in DOMAIN s}

\* \d
DigitChars == Range(Digits)

IsDigit(c) == c \in DigitChars

DigitVal(c) == (CHOOSE i \in DOMAIN Digits : Digits[i] = c) - 1

\* \s
SpaceChars == {" ", "\t", "\n"}

IsSpace(c) == c \in SpaceChars

\* [a-zA-Z]
AlphaChars == Range(UpperCase) \cup Range(LowerCase)

\* [\d./]
QuantityChars == DigitChars \cup {".", "/"}

LowerChar(c) ==
    IF c \in Range(UpperCase)
    THEN LowerCase[CHOOSE i \in DOMAIN UpperCase : UpperCase[i] = c]
    ELSE c

RECURSIVE toLowerCase(_)
toLowerCase(s) ==
    IF s = <<>> THEN <<>> ELSE <<LowerChar(Head(s))>> \o toLowerCase(Tail(s))

\* The length of the longest run of characters of chars in s from position
\* from on.
RECURSIVE PrefixLen(_, _, _)
PrefixLen(s, chars, from) ==
    IF from <= Len(s) /\ s[from] \in chars
    THEN 1 + PrefixLen(s, chars, from + 1)
    ELSE 0

RECURSIVE SuffixSpaces(_, _)
SuffixSpaces(s, to) ==
    IF to >= 1 /\ IsSpace(s[to]) THEN 1 + SuffixSpaces(s, to - 1) ELSE 0

\* String.prototype.trim
trim(s) ==
    LET a == PrefixLen(s, SpaceChars, 1)
    IN  IF a = Len(s) THEN <<>>
        ELSE SubSeq(s, a + 1, Len(s) - SuffixSpaces(s, Len(s)))

RECURSIVE DigitsValue(_)
DigitsValue(s) ==
    IF s = <<>> THEN 0
    ELSE 10 * DigitsValue(SubSeq(s, 1, Len(s) - 1)) + DigitVal(s[Len(s)])

\* parseFloat on a string of digits and dots: the longest prefix that is a
\* decimal literal (digits, digits., digits.digits, .digits), NaN if none.
parseFloat(s) ==
    LET ni == PrefixLen(s, DigitChars, 1)
        dot == ni + 1 <= Len(s) /\ s[ni + 1] = "."
        nf == IF dot THEN PrefixLen(s, DigitChars, ni + 2) ELSE 0
    IN  IF ni = 0 /\ nf = 0 THEN NaN
        ELSE Num(DigitsValue(SubSeq(s, 1, ni)) * Pow10(nf)
                   + DigitsValue(SubSeq(s, ni + 2, ni + 1 + nf)),
                 Pow10(nf))

\* The index of the first "/" of s at or after from, Len(s) + 1 if none.
RECURSIVE SlashAt(_, _)
SlashAt(s, from) ==
    IF from > Len(s) \/ s[from] = "/" THEN from ELSE SlashAt(s, from + 1)

\* s.includes("/")
HasSlash(s) == SlashAt(s, 1) <= Len(s)

\* s.split("/")[0] and s.split("/")[1], for s that holds a "/"
SplitFirst(s) == SubSeq(s, 1, SlashAt(s, 1) - 1)

SplitSecond(s) ==
    LET a == SlashAt(s, 1) IN SubSeq(s, a + 1, SlashAt(s, a + 1) - 1)

\* Measure strings used below.
HalfCup == <<"1", "/", "2", " ", "c", "u", "p">>

TwoTbsp == <<"2", " ", "t", "b", "s", "p">>

ThreeGrams == <<"3", " ", "g", "r", "a", "m", "s">>

Constructor == <<"c", "o", "n", "s", "t", "r", "u", "c", "t", "o", "r">>

----------------------------------------------------------------------------
(* estimateGramsFromMeasure *)

DefaultGrams == 100

DefaultGramsPerUnit == 100

measureToGrams ==
    (<<"c", "u", "p">> :> 240)
    @@ (<<"t", "a", "b", "l", "e", "s", "p", "o", "o", "n">> :> 15)
    @@ (<<"t", "b", "s", "p">> :> 15)
    @@ (<<"t", "e", "a", "s", "p", "o", "o", "n">> :> 5)
    @@ (<<"t", "s", "p">> :> 5)
    @@ (<<"s", "l", "i", "c", "e">> :> 30)
    @@ (<<"s", "l", "i", "c", "e", "s">> :> 30)
    @@ (<<"p", "i", "e", "c", "e">> :> 50)
    @@ (<<"p", "i", "e", "c", "e", "s">> :> 50)
    @@ (<<"o", "z">> :> 28)
    @@ (<<"o", "u", "n", "c", "e", "s">> :> 28)
    @@ (<<"p", "o", "u", "n", "d">> :> 454)
    @@ (<<"l", "b">> :> 454)
    @@ (<<"g">> :> 1)
    @@ (<<"g", "r", "a", "m">> :> 1)
    @@ (<<"g", "r", "a", "m", "s">> :> 1)

\* measureToGrams[unit] for an all-lowercase alphabetic key: an own
\* property, else what the literal inherits from Object.prototype (of whose
\* property names only "constructor" is all lowercase letters), else
\* undefined.
MeasureTableGet(unit) ==
    IF unit \in DOMAIN measureToGrams THEN IntNum(measureToGrams[unit])
    ELSE IF unit = Constructor THEN ObjectConstructor
    ELSE Undefined

\* cleaned.match(/^([\d./]+)\s*([a-zA-Z]+)/): the three character classes
\* are disjoint, so the greedy match is the only one.  The result is
\* <<matched, group 1, group 2>>.
MeasureMatch(cleaned) ==
    LET nq == PrefixLen(cleaned, QuantityChars, 1)
        ns == PrefixLen(cleaned, SpaceChars, nq + 1)
        nu == PrefixLen(cleaned, AlphaChars, nq + ns + 1)
    IN  IF nq = 0 \/ nu = 0 THEN <<FALSE, <<>>, <<>>>>
        ELSE <<TRUE, SubSeq(cleaned, 1, nq),
               SubSeq(cleaned, nq + ns + 1, nq + ns + nu)>>

MeasureQuantity(q) ==
    IF HasSlash(q) THEN Div(parseFloat(SplitFirst(q)), parseFloat(SplitSecond(q)))
    ELSE parseFloat(q)

estimateGramsFromMeasure(measure) ==
    IF ~IsString(measure) \/ measure = <<>> THEN IntNum(DefaultGrams)
    ELSE LET match == MeasureMatch(toLowerCase(trim(measure)))
         IN  IF ~match[1] THEN IntNum(DefaultGrams)
             ELSE Mul(MeasureQuantity(match[2]),
                      OrElse(MeasureTableGet(match[3]),
                             IntNum(DefaultGramsPerUnit)))

----------------------------------------------------------------------------
(* extractNutrients *)

ZeroNutrients ==
    [calories |-> IntNum(0), protein |-> IntNum(0),
     carbs |-> IntNum(0), fat |-> IntNum(0)]

\* A switch that adds each match to the field instead of overwriting it.
ExtractOneSumming(acc, n) ==
    LET v == ToNumber(n.value)
    IN  CASE n.nutrientName = "Energy" ->
                [acc EXCEPT !.calories = Add(acc.calories, v)]
          [] n.nutrientName = "Protein" ->
                [acc EXCEPT !.protein = Add(acc.protein, v)]
          [] n.nutrientName = "Carbohydrate, by difference" ->
                [acc EXCEPT !.carbs = Add(acc.carbs, v)]
          [] n.nutrientName = "Total lipid (fat)" ->
                [acc EXCEPT !.fat = Add(acc.fat, v)]
          [] OTHER -> acc

\* One step of the forEach: the switch on n.nutrientName.
ExtractOne(acc, n) ==
    CASE n.nutrientName = "Energy" -> [acc EXCEPT !.calories = n.value]
      [] n.nutrientName = "Protein" -> [acc EXCEPT !.protein = n.value]
      [] n.nutrientName = "Carbohydrate, by difference" ->
            [acc EXCEPT !.carbs = n.value]
      [] n.nutrientName = "Total lipid (fat)" -> [acc EXCEPT !.fat = n.value]
      [] OTHER -> acc

RECURSIVE ExtractFrom(_, _, _)
ExtractFrom(acc, list, i) ==
    IF i > Len(list) THEN acc
    ELSE ExtractFrom(ExtractOne(acc, list[i]), list, i + 1)

\* foodNutrients is the record's nutrient list.
extractNutrients(foodNutrients) == ExtractFrom(ZeroNutrients, foodNutrients, 1)

----------------------------------------------------------------------------
(* The page: data the two providers can answer with *)

maxNumIngredients == 20

maxNumMeals == 10

MaxCalls == 2

Apple == <<"a", "p", "p", "l", "e">>

Rice == <<"r", "i", "c", "e">>

Egg == <<"E", "g", "g">>

Entry(name, value) == [nutrientName |-> name, value |-> value]

\* A food record: its description and its nutrient list.
Food(description, list) == [description |-> description, foodNutrients |-> list]

\* The first record the nutrition provider returns for a query when it
\* returns any: per-100g values, with the duplicate "Energy" entries (kcal,
\* then kJ) that some records carry.
FoodDB ==
    (Apple :> Food("apple",
                   <<Entry("Energy", IntNum(52)), Entry("Protein", Num(3, 10)),
                     Entry("Carbohydrate, by difference", IntNum(14)),
                     Entry("Total lipid (fat)", Num(2, 10)),
                     Entry("Fiber, total dietary", Num(24, 10))>>))
    @@ (Rice :> Food("rice",
                     <<Entry("Protein", Num(27, 10)), Entry("Energy", IntNum(130)),
                       Entry("Carbohydrate, by difference", IntNum(28)),
                       Entry("Total lipid (fat)", Num(3, 10))>>))
    @@ (Egg :> Food("egg",
                    <<Entry("Energy", IntNum(599)), Entry("Energy", IntNum(143)),
                      Entry("Protein", Num(126, 10)),
                      Entry("Carbohydrate, by difference", Num(7, 10)),
                      Entry("Total lipid (fat)", Num(95, 10))>>))

\* extractNutrients of each record of FoodDB, by description.
ExtractedNutrients ==
    ("apple" :> extractNutrients(FoodDB[Apple].foodNutrients))
    @@ ("rice" :> extractNutrients(FoodDB[Rice].foodNutrients))
    @@ ("egg" :> extractNutrients(FoodDB[Egg].foodNutrients))

\* A response body of the nutrition provider: the JSON null, an object
\* without "foods", or an object with a "foods" list.
NullBody == [isNull |-> TRUE, hasFoods |-> FALSE, foods |-> <<>>]

NoFoodsBody == [isNull |-> FALSE, hasFoods |-> FALSE, foods |-> <<>>]

FoodsBody(list) == [isNull |-> FALSE, hasFoods |-> TRUE, foods |-> list]

NutritionBodies(query) ==
    {NullBody, NoFoodsBody, FoodsBody(<<>>)}
    \cup (IF query \in DOMAIN FoodDB
          THEN {FoodsBody(<<FoodDB[query]>>)} ELSE {})

\* Ingredient and measure strings of a meal record, slots 1..20.
Slots == 1..maxNumIngredients

RECURSIVE Padded(_)
Padded(list) ==
    IF Len(list) >= maxNumIngredients THEN list ELSE Padded(Append(list, <<>>))

RECURSIVE Column(_, _)
Column(list, c) ==
    IF list = <<>> THEN <<>> ELSE <<list[1][c]>> \o Column(Tail(list), c)

\* A meal record from its leading <<ingredient, measure>> pairs; the slots
\* after them hold empty strings.
Meal(id, list) ==
    [idMeal |-> id,
     strIngredient |-> Padded(Column(list, 1)),
     strMeasure |-> Padded(Column(list, 2))]

\* Rice and egg around blank slots of every kind; the remaining slots are
\* empty strings.
MealRiceEgg ==
    Meal("52771",
         << <<Rice, HalfCup>>,
            <<<<" ", " ">>, TwoTbsp>>,
            <<Null, Null>>,
            <<<<>>, ThreeGrams>>,
            <<Egg, <<"2">>>>,
            <<Absent, Absent>> >>)

\* Twenty blank slots, some with a measure.
MealBlank ==
    Meal("52772",
         << <<<<>>, HalfCup>>, <<Null, TwoTbsp>>, <<<<" ">>, ThreeGrams>>,
            <<Absent, <<"1", " ", "l", "b">>>>, <<<<"\t", " ">>, Null>> >>)

MealDB == ("52771" :> MealRiceEgg) @@ ("52772" :> MealBlank)

\* data.meals of a response body of the recipe provider: null, or a list.
MealsBody(isNull, list) == [mealsNull |-> isNull, meals |-> list]

RecipeBodies ==
    {MealsBody(TRUE, <<>>), MealsBody(FALSE, <<>>),
     MealsBody(FALSE, <<MealBlank, MealRiceEgg>>)}

----------------------------------------------------------------------------
(* The page: the document *)

ResetText == Text("0", 0, 0, "")

LoadingText == Text("Loading...", 0, 0, "")

DashText == Text("-", 0, 0, "")

\* resetResults.  by, quantity and foodNutrients record which invocation wrote
\* the spans, and from what; the page does not hold them.
ResetDisplay ==
    [calories |-> ResetText, protein |-> ResetText, carbs |-> ResetText,
     fat |-> ResetText, by |-> 0, quantity |-> NaN, foodNutrients |-> <<>>]

EmptySuggestions == [kind |-> "empty", cards |-> <<>>, by |-> 0]

NoMealsSuggestions(k) == [kind |-> "noMeals", cards |-> <<>>, by |-> k]

MealCard(meal) ==
    [idMeal |-> meal.idMeal, calories |-> LoadingText, protein |-> DashText,
     carbs |-> DashText, fat |-> DashText, writer |-> 0]

\* document.getElementById("meal-calories-" + id): the index of the first
\* card with that id, 0 for null.
CardById(sug, id) ==
    LET at == {c \in DOMAIN sug.cards : sug.cards[c].idMeal = id}
    IN  IF at = {} THEN 0 ELSE CHOOSE c \in at : \A d \in at : c <= d

\* A request in flight.  Every caller awaits fetch(url) and then
\* response.json() without touching the page in between, so the two awaits
\* are one suspension here: the request settles rejected (either await
\* rejects) or with the parsed body.
Request(kind, k, a, slot) ==
    [kind |-> kind, call |-> k, agg |-> a, slot |-> slot]

\* A scale that forgets the per-100g reference mass.
DisplayScaleUndivided(quantity) == quantity

\* quantity / 100
DisplayScale(quantity) == Div(quantity, IntNum(100))

\* displayNutrients: the texts the four spans can get.
displayNutrients(nutrients, quantity) ==
    LET scale == DisplayScale(quantity)
    IN  [calories : toFixed(Mul(nutrients.calories, scale), 1),
         protein : toFixed(Mul(nutrients.protein, scale), 1),
         carbs : toFixed(Mul(nutrients.carbs, scale), 1),
         fat : toFixed(Mul(nutrients.fat, scale), 1)]

----------------------------------------------------------------------------
(* estimateMealNutrition *)

\* A test that forgets to trim.
IsBlankIngredientUntrimmed(ingredient) ==
    ~IsString(ingredient) \/ ingredient = <<>>

\* !ingredient || ingredient.trim() === ""
IsBlankIngredient(ingredient) ==
    \/ ~IsString(ingredient)
    \/ ingredient = <<>>
    \/ trim(ingredient) = <<>>

Min(S) == CHOOSE x \in S : \A y \in S : x <= y

\* The test of the ingredient of each of the slots 1..n of meal.
RECURSIVE BlankFlags(_, _)
BlankFlags(meal, n) ==
    IF n = 0 THEN <<>>
    ELSE Append(BlankFlags(meal, n - 1),
                IsBlankIngredient(meal.strIngredient[n]))

\* estimateGramsFromMeasure of the measure of each of the slots 1..n of meal.
RECURSIVE MeasureGrams(_, _)
MeasureGrams(meal, n) ==
    IF n = 0 THEN <<>>
    ELSE Append(MeasureGrams(meal, n - 1),
                estimateGramsFromMeasure(meal.strMeasure[n]))

\* Both, per meal of MealDB, computed once.
SlotIsBlank ==
    (MealRiceEgg.idMeal :> BlankFlags(MealRiceEgg, maxNumIngredients))
    @@ (MealBlank.idMeal :> BlankFlags(MealBlank, maxNumIngredients))

SlotGrams ==
    (MealRiceEgg.idMeal :> MeasureGrams(MealRiceEgg, maxNumIngredients))
    @@ (MealBlank.idMeal :> MeasureGrams(MealBlank, maxNumIngredients))

\* A loop that does not await: it issues every remaining lookup at once.
NextLookupsAllAtOnce(meal, from) ==
    {j \in from..maxNumIngredients : ~SlotIsBlank[meal.idMeal][j]}

\* The slots the loop, entered at slot from, issues a lookup for before it
\* suspends: the first non-blank one, none if only blank slots are left.
NextLookups(meal, from) ==
    LET nonBlank == {j \in from..maxNumIngredients :
                        ~SlotIsBlank[meal.idMeal][j]}
    IN  IF nonBlank = {} THEN {} ELSE {Min(nonBlank)}

\* A try around the whole loop: the first failure ends the loop.
AfterLookupAborting(i, gotRecord) ==
    IF gotRecord THEN i + 1 ELSE maxNumIngredients + 1

\* Where the loop goes on after the lookup of slot i: the try body and the
\* catch both fall through to i++.
AfterLookup(i, gotRecord) == i + 1

ZeroTotals ==
    [calories |-> IntNum(0), protein |-> IntNum(0),
     carbs |-> IntNum(0), fat |-> IntNum(0)]

NewAggregation(k, meal) ==
    [call |-> k, idMeal |-> meal.idMeal, i |-> 1, pc |-> "running",
     totals |-> ZeroTotals, issued |-> {}, ok |-> {}, writes |-> 0]

\* The try body for a record: totals += (nutrient || 0) * grams / 100,
\* with nutrients = extractNutrients(foodItem) and
\* grams = estimateGramsFromMeasure(measure)
AddToTotals(totals, foodItem, grams) ==
    LET nutrients == ExtractedNutrients[foodItem.description]
        scale == Div(grams, IntNum(100))
    IN  [calories |-> Add(totals.calories,
                          Mul(OrElse(nutrients.calories, IntNum(0)), scale)),
         protein |-> Add(totals.protein,
                         Mul(OrElse(nutrients.protein, IntNum(0)), scale)),
         carbs |-> Add(totals.carbs,
                       Mul(OrElse(nutrients.carbs, IntNum(0)), scale)),
         fat |-> Add(totals.fat,
                     Mul(OrElse(nutrients.fat, IntNum(0)), scale))]

\* The four textContent assignments after the loop.
TotalsTexts(totals) ==
    [calories : {Suffixed(t, " kcal") : t \in toFixed(totals.calories, 0)},
     protein : toFixed(totals.protein, 1),
     carbs : toFixed(totals.carbs, 1),
     fat : toFixed(totals.fat, 1)]

\* The loop of aggregation a from slot from on, up to its next await or its
\* end, in page state st = [aggs, suggestions, inflight]: the states it can
\* leave.  At the end the card is looked up by id; without it the first
\* assignment throws and the promise of the aggregation rejects.
RunAggregation(st, a, from) ==
    LET agg == st.aggs[a]
        meal == MealDB[agg.idMeal]
        lookups == NextLookups(meal, from)
        card == CardById(st.suggestions, agg.idMeal)
    IN  IF lookups # {}
        THEN {[st EXCEPT
                 !.aggs[a].i = Min(lookups),
                 !.aggs[a].issued = @ \cup lookups,
                 !.inflight = @ \cup {Request("ingredient", agg.call, a, j) :
                                        j \in lookups}]}
        ELSE IF card = 0
        THEN {[st EXCEPT !.aggs[a].i = maxNumIngredients + 1,
                         !.aggs[a].pc = "error"]}
        ELSE {[st EXCEPT
                 !.aggs[a].i = maxNumIngredients + 1,
                 !.aggs[a].pc = "done",
                 !.aggs[a].writes = @ + 1,
                 !.suggestions.cards[card] =
                     [idMeal |-> agg.idMeal, calories |-> t.calories,
                      protein |-> t.protein, carbs |-> t.carbs,
                      fat |-> t.fat, writer |-> a]] :
              t \in TotalsTexts(agg.totals)}

\* estimateMealNutrition(meal), called by invocation k: up to its first
\* await.
estimateMealNutrition(st, k, meal) ==
    RunAggregation([st EXCEPT !.aggs = Append(@, NewAggregation(k, meal))],
                   Len(st.aggs) + 1, 1)

----------------------------------------------------------------------------
(* fetchMealSuggestions *)

\* meals.slice(0, maxNumMeals)
Slice(meals, n) == SubSeq(meals, 1, IF Len(meals) < n THEN Len(meals) ELSE n)

\* The forEach over the meals from position p on: append the card, then
\* call estimateMealNutrition.
RECURSIVE RenderMeals(_, _, _, _)
RenderMeals(sts, k, meals, p) ==
    IF p > Len(meals) THEN sts
    ELSE RenderMeals(
             UNION {estimateMealNutrition(
                        [st EXCEPT !.suggestions.cards =
                                       Append(@, MealCard(meals[p]))],
                        k, meals[p]) : st \in sts},
             k, meals, p + 1)

\* The handler once the body is parsed.
ShowMealSuggestions(st, k, data) ==
    LET meals == IF data.mealsNull THEN <<>> ELSE data.meals
    IN  IF Len(meals) = 0
        THEN {[st EXCEPT !.suggestions = NoMealsSuggestions(k)]}
        ELSE RenderMeals(
                 {[st EXCEPT !.suggestions =
                                 [kind |-> "cards", cards |-> <<>>, by |-> k]]},
                 k, Slice(meals, maxNumMeals), 1)

----------------------------------------------------------------------------
(* The page: handlers *)

PageState == [aggs |-> aggs, suggestions |-> suggestions, inflight |-> inflight]

SetPageState(st) ==
    /\ aggs' = st.aggs
    /\ suggestions' = st.suggestions
    /\ inflight' = st.inflight

InvalidAlert == "Enter valid food and quantity."

ErrorAlert == "Error fetching nutrition info!"

\* An invocation of calculate(): its locals while it is suspended, its
\* position, the alert it raised, and the position of the
\* fetchMealSuggestions it called.  Once it has returned, its locals are
\* gone.
NewCall(foodName, quantity, pc, alert) ==
    [foodName |-> foodName, quantity |-> quantity, pc |-> pc, alert |-> alert,
     suggestionsPc |-> "idle"]

\* What the user can have typed: the food field, and the quantity field as
\* parseFloat reads it (NaN for an empty field).
FoodInputs == {<<" ">> \o Apple, <<" ", " ">>, <<>>}

QuantityInputs == {IntNum(150), IntNum(50), IntNum(0), NaN}

\* calculate(), up to its first await.
Calculate(food, quantity) ==
    LET k == Len(calls) + 1
        foodName == trim(food)
    IN  /\ Len(calls) < MaxCalls
        /\ display' = ResetDisplay
        /\ suggestions' = EmptySuggestions
        /\ IF foodName = <<>> \/ quantity.k = "NaN" \/ IsZero(quantity)
           THEN /\ calls' = Append(calls, NewCall(<<>>, NaN, "invalid",
                                                  InvalidAlert))
                /\ UNCHANGED inflight
           ELSE /\ calls' = Append(calls, NewCall(foodName, quantity,
                                                  "pending", ""))
                /\ inflight' = inflight \cup {Request("nutrition", k, 0, 0)}
        /\ UNCHANGED <<aggs, pureVars>>

\* calculate(): the catch block.
CalculateFails(r) ==
    /\ calls' = [calls EXCEPT ![r.call].pc = "failed",
                              ![r.call].quantity = NaN,
                              ![r.call].alert = ErrorAlert]
    /\ inflight' = inflight \ {r}
    /\ UNCHANGED <<display, suggestions, aggs, pureVars>>

\* The fetch or the parse of the direct lookup rejects.
NutritionRejects(r) ==
    /\ r \in inflight
    /\ r.kind = "nutrition"
    /\ CalculateFails(r)

\* fetchNutritionData on a parsed body: whether it returns, and what.
fetchNutritionData(data) ==
    IF data.isNull \/ ~data.hasFoods \/ Len(data.foods) = 0
    THEN <<FALSE, <<>>>>
    ELSE <<TRUE, data.foods[1]>>

\* The direct lookup's body is parsed: calculate() runs to its end, and
\* fetchMealSuggestions to its first await.
NutritionResolves(r, data) ==
    /\ r \in inflight
    /\ r.kind = "nutrition"
    /\ LET found == fetchNutritionData(data)
           call == calls[r.call]
       IN  IF ~found[1] THEN CalculateFails(r)
           ELSE /\ \E texts \in displayNutrients(
                                      extractNutrients(found[2].foodNutrients),
                                                   call.quantity) :
                      display' = [calories |-> texts.calories,
                                  protein |-> texts.protein,
                                  carbs |-> texts.carbs, fat |-> texts.fat,
                                  by |-> r.call, quantity |-> call.quantity,
                                  foodNutrients |-> found[2].foodNutrients]
                /\ calls' = [calls EXCEPT ![r.call].pc = "shown",
                                          ![r.call].quantity = NaN,
                                          ![r.call].suggestionsPc = "pending"]
                /\ inflight' = (inflight \ {r})
                                 \cup {Request("recipe", r.call, 0, 0)}
                /\ UNCHANGED <<suggestions, aggs, pureVars>>

\* fetchMealSuggestions: the fetch or the parse rejects, the catch logs it.
RecipeRejects(r) ==
    /\ r \in inflight
    /\ r.kind = "recipe"
    /\ calls' = [calls EXCEPT ![r.call].suggestionsPc = "caught"]
    /\ inflight' = inflight \ {r}
    /\ UNCHANGED <<display, suggestions, aggs, pureVars>>

\* fetchMealSuggestions: the body is parsed, the suggestions are rendered.
RecipeResolves(r, data) ==
    /\ r \in inflight
    /\ r.kind = "recipe"
    /\ calls' = [calls EXCEPT ![r.call].suggestionsPc = "done"]
    /\ \E st \in ShowMealSuggestions(
                     [PageState EXCEPT !.inflight = @ \ {r}], r.call, data) :
           SetPageState(st)
    /\ UNCHANGED <<display, pureVars>>

\* estimateMealNutrition: the lookup of the current slot settles; gotRecord
\* says whether the try body reached the totals.  The loop goes on.
LookupSettles(r, gotRecord, data) ==
    LET agg == aggs[r.agg]
        st == [PageState EXCEPT
                 !.inflight = @ \ {r},
                 !.aggs[r.agg].ok =
                     IF gotRecord THEN @ \cup {agg.i} ELSE @,
                 !.aggs[r.agg].totals =
                     IF gotRecord
                     THEN AddToTotals(@, data.foods[1],
                                      SlotGrams[agg.idMeal][agg.i])
                     ELSE @]
    IN  /\ \E next \in RunAggregation(st, r.agg, AfterLookup(agg.i, gotRecord)) :
               SetPageState(next)
        /\ UNCHANGED <<calls, display, pureVars>>

\* The fetch or the parse of an ingredient lookup rejects: the catch logs.
IngredientRejects(r) ==
    /\ r \in inflight
    /\ r.kind = "ingredient"
    /\ LookupSettles(r, FALSE, NullBody)

\* The body of an ingredient lookup is parsed.  data.foods of a null body
\* throws into the catch; data.foods && data.foods[0] decides the rest.
IngredientResolves(r, data) ==
    /\ r \in inflight
    /\ r.kind = "ingredient"
    /\ LookupSettles(r, ~data.isNull /\ data.hasFoods /\ Len(data.foods) >= 1,
                     data)

InitPage ==
    /\ calls = <<>>
    /\ display = ResetDisplay
    /\ suggestions = EmptySuggestions
    /\ aggs = <<>>
    /\ inflight = {}

InitPure ==
    /\ argMeasure = Null
    /\ retGrams = Undefined
    /\ argFood = <<>>
    /\ retNutrients = ZeroNutrients
    /\ returned = FALSE

Init == InitPage /\ InitPure

IngredientOf(r) ==
    MealDB[aggs[r.agg].idMeal].strIngredient[aggs[r.agg].i]

Next ==
    \/ \E food \in FoodInputs, quantity \in QuantityInputs :
           Calculate(food, quantity)
    \/ \E r \in inflight : NutritionRejects(r)
    \/ \E r \in inflight :
           \E data \in NutritionBodies(calls[r.call].foodName) :
               NutritionResolves(r, data)
    \/ \E r \in inflight : RecipeRejects(r)
    \/ \E r \in inflight, data \in RecipeBodies :
           RecipeResolves(r, data)
    \/ \E r \in inflight : IngredientRejects(r)
    \/ \E r \in inflight :
           /\ r.kind = "ingredient"
           /\ \E data \in NutritionBodies(IngredientOf(r)) :
                  IngredientResolves(r, data)

vars == <<pureVars, pageVars>>

Spec == Init /\ [][Next]_vars

----------------------------------------------------------------------------
(* The two pure functions, each applied once to an input drawn from a      *)
(* bounded set.                                                            *)

MaxQtyLen == 3

MaxEntries == 3

SeqsUpTo(S, n) == UNION {[1..k -> S] : k \in 0..n}

\* Measures: [lead] [quantity token] [separator] [unit] [tail]
MeasureLeads == {<<>>, <<" ">>, <<"x">>}

MeasureQuantities == SeqsUpTo({"0", "1", "2", "3", ".", "/"}, MaxQtyLen)

MeasureSeps == {<<>>, <<" ">>}

MeasureUnits ==
    DOMAIN measureToGrams
    \cup {<<>>, <<"C", "u", "p">>, <<"T", "B", "S", "P">>, <<"c", "u", "p", "s">>,
          <<"a", "b", "c">>, <<"m", "l">>, Constructor}

MeasureTails == {<<>>, <<" ">>}

MeasureInputs ==
    {Null, Absent}
    \cup {l \o q \o s \o u \o t :
            l \in MeasureLeads, q \in MeasureQuantities, s \in MeasureSeps,
            u \in MeasureUnits, t \in MeasureTails}

NutrientNames ==
    {"Energy", "Protein", "Carbohydrate, by difference", "Total lipid (fat)",
     "Fiber, total dietary", "energy"}

NutrientValues == {IntNum(3), IntNum(52), Undefined}

NutrientEntries == [nutrientName : NutrientNames, value : NutrientValues]

FoodItemInputs == SeqsUpTo(NutrientEntries, MaxEntries)

InitMeasure ==
    /\ argMeasure \in MeasureInputs
    /\ retGrams = Undefined
    /\ argFood = <<>>
    /\ retNutrients = ZeroNutrients
    /\ returned = FALSE
    /\ InitPage

CallEstimateGrams ==
    /\ ~returned
    /\ retGrams' = estimateGramsFromMeasure(argMeasure)
    /\ returned' = TRUE
    /\ UNCHANGED <<argMeasure, argFood, retNutrients, pageVars>>

InitExtract ==
    /\ argFood \in FoodItemInputs
    /\ retNutrients = ZeroNutrients
    /\ argMeasure = Null
    /\ retGrams = Undefined
    /\ returned = FALSE
    /\ InitPage

CallExtractNutrients ==
    /\ ~returned
    /\ retNutrients' = extractNutrients(argFood)
    /\ returned' = TRUE
    /\ UNCHANGED <<argMeasure, retGrams, argFood, pageVars>>

SpecMeasure == InitMeasure /\ [][CallEstimateGrams]_vars

SpecExtract == InitExtract /\ [][CallExtractNutrients]_vars

----------------------------------------------------------------------------
(* Claims about estimateGramsFromMeasure (SpecMeasure) *)

\* The unit table as the specification lists it.
StatedGramsPerUnit(unit) ==
    CASE unit = <<"c", "u", "p">> -> 240
      [] unit \in {<<"t", "a", "b", "l", "e", "s", "p", "o", "o", "n">>,
                   <<"t", "b", "s", "p">>} -> 15
      [] unit \in {<<"t", "e", "a", "s", "p", "o", "o", "n">>,
                   <<"t", "s", "p">>} -> 5
      [] unit \in {<<"s", "l", "i", "c", "e">>,
                   <<"s", "l", "i", "c", "e", "s">>} -> 30
      [] unit \in {<<"p", "i", "e", "c", "e">>,
                   <<"p", "i", "e", "c", "e", "s">>} -> 50
      [] unit \in {<<"o", "z">>, <<"o", "u", "n", "c", "e", "s">>} -> 28
      [] unit \in {<<"p", "o", "u", "n", "d">>, <<"l", "b">>} -> 454
      [] unit \in {<<"g">>, <<"g", "r", "a", "m">>,
                   <<"g", "r", "a", "m", "s">>} -> 1
      [] OTHER -> 100

AllDigits(s) == s # <<>> /\ \A i \in DOMAIN s : IsDigit(s[i])

\* The leading token read as the specification reads it: a decimal
\* (digits, or digits.digits), or a fraction of two whole numbers with a
\* non-zero denominator.  <<TRUE, n, d>> stands for n/d.
StatedQuantity(q) ==
    LET Cut(c) == CHOOSE i \in 1..(Len(q) + 1) :
                      /\ i = Len(q) + 1 \/ q[i] = c
                      /\ \A j \in 1..(i - 1) : q[j] # c
        a == SubSeq(q, 1, Cut("/") - 1)
        b == SubSeq(q, Cut("/") + 1, Len(q))
        w == SubSeq(q, 1, Cut(".") - 1)
        f == SubSeq(q, Cut(".") + 1, Len(q))
    IN  IF AllDigits(q) THEN <<TRUE, DigitsValue(q), 1>>
        ELSE IF AllDigits(a) /\ AllDigits(b) /\ DigitsValue(b) # 0
             THEN <<TRUE, DigitsValue(a), DigitsValue(b)>>
        ELSE IF AllDigits(w) /\ AllDigits(f)
             THEN <<TRUE, DigitsValue(w \o f), Pow10(Len(f))>>
        ELSE <<FALSE, 0, 1>>

\* n1/d1 = n2/d2 for a number x = n1/d1
EqualsRatio(x, n, d) == IsNum(x) /\ x.n * d = n * x.d

Cleaned == toLowerCase(trim(argMeasure))

\* C3: a measure that matches the quantity-unit pattern gives quantity
\* times grams-per-unit, with the unit table as stated and 100 for a unit
\* that is not in the table; "1/2 cup" gives 120, "2 tbsp" 30 and
\* "3 grams" 3.
C3_QuantityTimesGramsPerUnit ==
    (returned /\ IsString(argMeasure)) =>
        LET match == MeasureMatch(Cleaned)
            q == StatedQuantity(match[2])
        IN  /\ (match[1] /\ q[1]) =>
                EqualsRatio(retGrams, q[2] * StatedGramsPerUnit(match[3]), q[3])
            /\ argMeasure = HalfCup => retGrams = IntNum(120)
            /\ argMeasure = TwoTbsp => retGrams = IntNum(30)
            /\ argMeasure = ThreeGrams => retGrams = IntNum(3)

\* What C3 says of the units that are in the table is true of the code:
\* the only unit it fails on is one the object literal inherits.
C3_HoldsExceptInherited ==
    (returned /\ IsString(argMeasure)) =>
        LET match == MeasureMatch(Cleaned)
            q == StatedQuantity(match[2])
        IN  (match[1] /\ q[1] /\ match[3] # Constructor) =>
                EqualsRatio(retGrams, q[2] * StatedGramsPerUnit(match[3]), q[3])

\* The pattern as the specification words it: a leading numeric-or-fraction
\* token (one that holds a digit), whitespace, then an alphabetic unit.
StatedParseable(cleaned) ==
    LET nq == PrefixLen(cleaned, QuantityChars, 1)
        ns == PrefixLen(cleaned, SpaceChars, nq + 1)
        nu == PrefixLen(cleaned, AlphaChars, nq + ns + 1)
    IN  /\ \E i \in 1..nq : IsDigit(cleaned[i])
        /\ ns >= 1
        /\ nu >= 1

\* C4: null, the empty string and every string that is not a numeric or
\* fraction token, whitespace and a unit give exactly 100.
C4_UnparseableGivesDefault ==
    (returned /\ (~IsString(argMeasure) \/ ~StatedParseable(Cleaned))) =>
        retGrams = IntNum(100)

\* What the code does instead: 100 exactly when the measure is not a
\* string, is empty, or does not start with [0-9./]+ \s* [a-z]+.
C4_DefaultIffNoMatch ==
    (returned /\ (~IsString(argMeasure) \/ ~MeasureMatch(Cleaned)[1])) =>
        retGrams = IntNum(100)

----------------------------------------------------------------------------
(* Claims about extractNutrients (SpecExtract) *)

\* The value of the last entry of list named name, 0 if there is none.
LastValue(list, name) ==
    LET at == {i \in DOMAIN list : list[i].nutrientName = name}
    IN  IF at = {} THEN IntNum(0)
        ELSE list[CHOOSE i \in at : \A j \in at : j <= i].value

\* C5: each field is the value of the last entry with its name, 0 if no
\* entry has it; other names change nothing and duplicates are not summed.
C5_LastMatchWins ==
    returned =>
        /\ retNutrients.calories = LastValue(argFood, "Energy")
        /\ retNutrients.protein = LastValue(argFood, "Protein")
        /\ retNutrients.carbs = LastValue(argFood, "Carbohydrate, by difference")
        /\ retNutrients.fat = LastValue(argFood, "Total lipid (fat)")
        /\ (\A i \in DOMAIN argFood :
               argFood[i].nutrientName \in {"Fiber, total dietary", "energy"})
            => retNutrients = ZeroNutrients

\* Two "Energy" entries with different values around an unrecognized one.
C5_Witness ==
    /\ returned
    /\ Len(argFood) = 3
    /\ argFood[1] = [nutrientName |-> "Energy", value |-> IntNum(52)]
    /\ argFood[2].nutrientName = "energy"
    /\ argFood[3] = [nutrientName |-> "Energy", value |-> IntNum(3)]
    /\ retNutrients.calories = IntNum(3)

----------------------------------------------------------------------------
(* Claims about the page (Spec) *)

\* The number n/d as an integer ratio.
Abs(x) == IF x < 0 THEN -x ELSE x

\* text is x to f decimal places: |text - x| <= 10^-f / 2
RoundsTo(text, x, f) ==
    IF x.k = "num"
    THEN /\ text.t = "fixed"
         /\ text.f = f
         /\ 2 * Abs(text.m * x.d - x.n * Pow10(f)) <= x.d
    ELSE text.t = x.k

\* text denotes exactly x
DenotesExactly(text, x) ==
    /\ x.k = "num"
    /\ text.t = "fixed"
    /\ text.m * x.d = x.n * Pow10(text.f)

\* A slot is blank when its ingredient is absent, null, empty or made of
\* whitespace only.
StatedBlank(meal, j) ==
    LET ing == meal.strIngredient[j]
    IN  \/ ing \in {Absent, Null}
        \/ \A c \in DOMAIN ing : IsSpace(ing[c])

\* The blank and the non-blank slots of each meal of MealDB.
StatedBlankSlots ==
    [id \in DOMAIN MealDB |-> {j \in Slots : StatedBlank(MealDB[id], j)}]

StatedNonBlankSlots == [id \in DOMAIN MealDB |-> Slots \ StatedBlankSlots[id]]

RecognizedNames ==
    {"Energy", "Protein", "Carbohydrate, by difference", "Total lipid (fat)"}

\* (nutrient value of the first record) x (estimated grams / 100), for each
\* non-blank slot of each meal of MealDB.
StatedContribution ==
    [id \in DOMAIN MealDB |->
        [j \in StatedNonBlankSlots[id] |->
            [name \in RecognizedNames |->
                Mul(LastValue(FoodDB[MealDB[id].strIngredient[j]].foodNutrients,
                              name),
                    Div(estimateGramsFromMeasure(MealDB[id].strMeasure[j]),
                        IntNum(100)))]]]

RECURSIVE StatedSum(_, _, _)
StatedSum(id, slots, name) ==
    IF slots = {} THEN IntNum(0)
    ELSE LET j == CHOOSE x \in slots : TRUE
         IN  Add(StatedContribution[id][j][name],
                 StatedSum(id, slots \ {j}, name))

StatedTotals(id, slots) ==
    [calories |-> StatedSum(id, slots, "Energy"),
     protein |-> StatedSum(id, slots, "Protein"),
     carbs |-> StatedSum(id, slots, "Carbohydrate, by difference"),
     fat |-> StatedSum(id, slots, "Total lipid (fat)")]

CardsWrittenBy(a) ==
    {c \in DOMAIN suggestions.cards : suggestions.cards[c].writer = a}

\* C1: whichever lookups fail, every non-blank slot is looked up, the totals
\* are the sum of value x grams / 100 over exactly the slots whose lookup
\* returned a record, and what the card shows is those totals.
C1_FailureIsolation ==
    \A a \in DOMAIN aggs :
        LET agg == aggs[a]
            sum == StatedTotals(agg.idMeal, agg.ok)
        IN  /\ agg.ok \subseteq agg.issued
            /\ agg.issued \subseteq StatedNonBlankSlots[agg.idMeal]
            /\ agg.totals = sum
            /\ agg.pc # "running" =>
                   agg.issued = StatedNonBlankSlots[agg.idMeal]
            /\ \A c \in CardsWrittenBy(a) :
                   LET card == suggestions.cards[c]
                   IN  /\ card.calories.suffix = " kcal"
                       /\ RoundsTo(card.calories, sum.calories, 0)
                       /\ RoundsTo(card.protein, sum.protein, 1)
                       /\ RoundsTo(card.carbs, sum.carbs, 1)
                       /\ RoundsTo(card.fat, sum.fat, 1)

\* The rice lookup failed, the egg lookup after it returned a record, and
\* the card shows the egg's 143 kcal per 100 g.
C1_Witness ==
    \E a \in DOMAIN aggs :
        /\ aggs[a].pc = "done"
        /\ aggs[a].issued = {1, 5}
        /\ aggs[a].ok = {5}
        /\ \E c \in CardsWrittenBy(a) :
               suggestions.cards[c].calories = Text("fixed", 0, 143, " kcal")

\* C2: every aggregation whose lookups have all settled has reported its
\* totals, and no error escaped it, also when a later calculate() reset the
\* suggestions area while it was in flight.
C2_AggregationCompletes ==
    \A a \in DOMAIN aggs :
        aggs[a].pc # "running" => (aggs[a].pc = "done" /\ aggs[a].writes = 1)

\* The texts displayNutrients wrote, against the record and the quantity of
\* the invocation that wrote them.
DisplayedProduct(name) ==
    Mul(LastValue(display.foodNutrients, name),
        Div(display.quantity, IntNum(100)))

\* C6 as stated: each displayed value equals the per-100g value times
\* q / 100; apple at 150 g shows protein 0.45.
C6_DisplayedEqualsProduct ==
    display.by # 0 =>
        /\ DenotesExactly(display.calories, DisplayedProduct("Energy"))
        /\ DenotesExactly(display.protein, DisplayedProduct("Protein"))
        /\ DenotesExactly(display.carbs,
                          DisplayedProduct("Carbohydrate, by difference"))
        /\ DenotesExactly(display.fat, DisplayedProduct("Total lipid (fat)"))

\* C6 as amended: each displayed value is the per-100g value times q / 100
\* rounded to one decimal place; apple at 150 g shows 78.0, 0.4 or 0.5,
\* 21.0 and 0.3.
C6_DisplayedIsProductRounded ==
    display.by # 0 =>
        /\ RoundsTo(display.calories, DisplayedProduct("Energy"), 1)
        /\ RoundsTo(display.protein, DisplayedProduct("Protein"), 1)
        /\ RoundsTo(display.carbs,
                    DisplayedProduct("Carbohydrate, by difference"), 1)
        /\ RoundsTo(display.fat, DisplayedProduct("Total lipid (fat)"), 1)
        /\ (display.foodNutrients = FoodDB[Apple].foodNutrients
              /\ display.quantity = IntNum(150)) =>
               /\ display.calories = Text("fixed", 1, 780, "")
               /\ display.protein \in {Text("fixed", 1, 4, ""),
                                       Text("fixed", 1, 5, "")}
               /\ display.carbs = Text("fixed", 1, 210, "")
               /\ display.fat = Text("fixed", 1, 3, "")

\* Apple at 150 g is on display.
C6_Witness ==
    /\ display.by # 0
    /\ display.foodNutrients = FoodDB[Apple].foodNutrients
    /\ display.quantity = IntNum(150)
    /\ display.calories = Text("fixed", 1, 780, "")

\* C7: when the direct lookup of an invocation fails, the user gets the
\* failure message, the four values are at their reset text, the
\* suggestions area is empty and the invocation issues no recipe request.
C7_FailureLeavesPageReset ==
    [][\A k \in DOMAIN calls :
          (calls[k].pc = "pending" /\ calls'[k].pc = "failed") =>
              /\ calls'[k].alert = ErrorAlert
              /\ display' = ResetDisplay
              /\ suggestions' = EmptySuggestions
              /\ calls'[k].suggestionsPc = "idle"
              /\ ~\E r \in inflight' : r.kind = "recipe" /\ r.call = k]_vars

\* C8: no lookup is issued for a blank slot and it adds nothing to the
\* totals, whatever its measure; a meal of 20 blank slots issues no lookup
\* and reports all-zero totals.
C8_BlankSlotsSkipped ==
    /\ \A r \in inflight :
           r.kind = "ingredient" =>
               r.slot \notin StatedBlankSlots[aggs[r.agg].idMeal]
    /\ \A a \in DOMAIN aggs :
           LET agg == aggs[a]
           IN  /\ (agg.issued \cup agg.ok) \cap StatedBlankSlots[agg.idMeal] = {}
               /\ StatedBlankSlots[agg.idMeal] = Slots =>
                      /\ agg.issued = {}
                      /\ agg.totals = ZeroTotals
                      /\ agg.pc = "done"
                      /\ \A c \in CardsWrittenBy(a) :
                             LET card == suggestions.cards[c]
                             IN  /\ card.calories = Text("fixed", 0, 0, " kcal")
                                 /\ card.protein = Text("fixed", 1, 0, "")
                                 /\ card.carbs = Text("fixed", 1, 0, "")
                                 /\ card.fat = Text("fixed", 1, 0, "")

\* The meal of 20 blank slots has its card, with zero totals, while the
\* other meal of the same response is still being looked up.
C8_Witness ==
    \E a \in DOMAIN aggs :
        /\ aggs[a].idMeal = MealBlank.idMeal
        /\ aggs[a].pc = "done"
        /\ \E c \in CardsWrittenBy(a) :
               suggestions.cards[c].calories = Text("fixed", 0, 0, " kcal")
        /\ \E r \in inflight : r.kind = "ingredient" /\ r.call = aggs[a].call

IngredientRequests(a) == {r \in inflight : r.kind = "ingredient" /\ r.agg = a}

IsPlaceholder(card) ==
    /\ card.calories = LoadingText
    /\ card.protein = DashText
    /\ card.carbs = DashText
    /\ card.fat = DashText

\* C9: an aggregation has at most one lookup outstanding, that of the slot
\* it is at, with every earlier non-blank slot looked up and settled; it
\* writes the four fields once, after slot 20; a card shows either its
\* placeholders or the four totals of a finished aggregation of its meal.
C9_SequentialLookupsSingleReport ==
    /\ \A a \in DOMAIN aggs :
           LET agg == aggs[a]
               nonBlank == StatedNonBlankSlots[agg.idMeal]
           IN  /\ Cardinality(IngredientRequests(a)) <= 1
               /\ \A r \in IngredientRequests(a) :
                      /\ agg.pc = "running"
                      /\ r.slot = agg.i
                      /\ agg.issued = {j \in nonBlank : j <= r.slot}
               /\ agg.pc = "running" => agg.writes = 0
               /\ agg.pc = "done" => agg.writes = 1
               /\ agg.writes <= 1
               /\ agg.writes = 1 =>
                      /\ agg.i = maxNumIngredients + 1
                      /\ agg.issued = nonBlank
                      /\ IngredientRequests(a) = {}
    /\ \A c \in DOMAIN suggestions.cards :
           LET card == suggestions.cards[c]
           IN  IF card.writer = 0 THEN IsPlaceholder(card)
               ELSE /\ aggs[card.writer].pc = "done"
                    /\ aggs[card.writer].idMeal = card.idMeal
                    /\ card.calories.t = "fixed"
                    /\ card.protein.t = "fixed"
                    /\ card.carbs.t = "fixed"
                    /\ card.fat.t = "fixed"

\* The rice lookup has returned a record and the egg lookup is outstanding,
\* while the card still shows its placeholders.
C9_Witness ==
    \E a \in DOMAIN aggs :
        /\ aggs[a].pc = "running"
        /\ aggs[a].i = 5
        /\ aggs[a].ok = {1}
        /\ IngredientRequests(a) # {}
        /\ \E c \in DOMAIN suggestions.cards :
               /\ suggestions.cards[c].idMeal = aggs[a].idMeal
               /\ IsPlaceholder(suggestions.cards[c])

\* C10: once no response of a direct lookup or of a recipe request is
\* pending, the displayed values and the suggestions are those of the most
\* recent invocation (or its reset), never those of an earlier one.
C10_LatestQueryWins ==
    (/\ calls # <<>>
     /\ ~\E r \in inflight : r.kind \in {"nutrition", "recipe"}) =>
        /\ display.by \in {0, Len(calls)}
        /\ suggestions.by \in {0, Len(calls)}

====
